---- MODULE Spec2Model ----
(***************************************************************************)
(* Paradigmatic Generalisation of Morphemes (trommer2010.py).              *)
(*                                                                         *)
(* Strings are sequences of one-character strings, so that `in', split and *)
(* lower are computed character by character.  Features are TLA+ strings   *)
(* ("+1", "Nom"), bundles are sequences of features (Python lists), and    *)
(* feature structures are sequences of bundles.  VI objects live in a      *)
(* heap (reference -> object) so that copying and in-place mutation are    *)
(* distinguishable.                                                        *)
(***************************************************************************)
EXTENDS Integers, Sequences, FiniteSets, TLC

VARIABLES
    heap,        \* object store: reference -> VI object [form, meaning]
    morphemes,   \* self.morphemes, a list of references
    rules,       \* self.rules, a list of GenRule values
    morphemes0,  \* the VI values the Language was constructed from (history)
    called,      \* whether realise_cell has been called
    cell,        \* argument of the latest realise_cell call
    working,     \* the local list `morphemes' of the latest call
    result,      \* the list `insertable' returned by the latest call
    mixed,       \* whether an earlier call was for another cell (history)
    pstring,     \* parser run: the input string
    pergative,   \* parser run: the ergative flag
    presult,     \* parser run: the value returned
    pexc,        \* parser run: the exception raised ("none" if it returned)
    ppc,         \* parser run: "ready" or "done"
    scell,       \* subsumes run: first argument
    sstruct,     \* subsumes run: second argument
    sres,        \* subsumes run: the value returned
    spc,         \* subsumes run: "ready" or "done"
    lang,        \* paradigm run: the Language (morphemes, rules, flags)
    dergative,   \* paradigm run: draw_paradigm's ergative argument
    dcalls,      \* paradigm run: the cells handed to realise_cell, row by row
    dtable,      \* paradigm run: the array handed to make_table
    dpc          \* paradigm run: "ready" or "done"

vars == <<heap, morphemes, rules, morphemes0, called, cell, working, result, mixed,
          pstring, pergative, presult, pexc, ppc,
          scell, sstruct, sres, spc,
          lang, dergative, dcalls, dtable, dpc>>

engineVars == <<heap, morphemes, rules, morphemes0, called, cell, working, result,
               mixed>>
parserVars == <<pstring, pergative, presult, pexc, ppc>>
subVars    == <<scell, sstruct, sres, spc>>
drawVars   == <<lang, dergative, dcalls, dtable, dpc>>

(***************************************************************************)
(* Bounds                                                                  *)
(***************************************************************************)
MaxMorphemes == 2    \* longest morpheme list of a profile
MaxRules     == 2    \* longest rule list of a profile
MaxLen       == 4    \* longest string handed to parse_features
MaxBundles   == 2    \* most bundles in a structure handed to subsumes

(***************************************************************************)
(* Generic sequence helpers                                                *)
(***************************************************************************)
SeqsUpTo(S, n) == UNION {[1..k -> S] : k \in 0..n}

set(list) == {list[i] : i \in DOMAIN list}

\* c in string, for a one-character c
In(c, string) == \E i \in DOMAIN string : string[i] = c

(***************************************************************************)
(* Feature Bundle Parser                                                   *)
(***************************************************************************)
value(boolean) == IF boolean THEN "+" ELSE "-"

LowerChar(c) ==
    CASE c = "S" -> "s"
      [] c = "P" -> "p"
      [] c = "D" -> "d"
      [] c = "I" -> "i"
      [] c = "X" -> "x"
      [] OTHER   -> c

lower(string) == [i \in DOMAIN string |-> LowerChar(string[i])]

\* feature_structure without the inclusive reading of person 2
feature_structure_no_incl(string, case, intr) ==
    LET first  == value(In("1", string)) \o "1"
        second == value(In("2", string)) \o "2"
        third  == value(In("3", string)) \o "3"
        sg     == value(In("s", string)) \o "sg"
        pl     == value(In("p", string)) \o "pl"
        struct == <<case, first, second, third, sg, pl>>
    IN  IF intr THEN Append(struct, "+intr") ELSE struct

feature_structure(string, case, intr) ==
    LET first  == value(In("1", string)) \o "1"
        second == value(In("2", string) \/ In("i", string)) \o "2"
        third  == value(In("3", string)) \o "3"
        sg     == value(In("s", string)) \o "sg"
        pl     == value(In("p", string)) \o "pl"
        struct == <<case, first, second, third, sg, pl>>
    IN  IF intr THEN Append(struct, "+intr") ELSE struct

\* string.split(sep) with no maxsplit: a cut at every sep
RECURSIVE split_all(_, _)
split_all(string, sep) ==
    IF ~In(sep, string) THEN <<string>>
    ELSE LET i == CHOOSE k \in DOMAIN string :
                      /\ string[k] = sep
                      /\ \A j \in 1..(k - 1) : string[j] # sep
         IN  <<SubSeq(string, 1, i - 1)>>
                 \o split_all(SubSeq(string, i + 1, Len(string)), sep)

\* string.split(sep, 1)
split1(string, sep) ==
    IF ~In(sep, string) THEN <<string>>
    ELSE LET i == CHOOSE k \in DOMAIN string :
                      /\ string[k] = sep
                      /\ \A j \in 1..(k - 1) : string[j] # sep
         IN  <<SubSeq(string, 1, i - 1), SubSeq(string, i + 1, Len(string))>>

parse_features(string, ergative) ==
    LET sarg == IF ergative THEN "Abs" ELSE "Nom"
        parg == IF ergative THEN "Abs" ELSE "Acc"
        aarg == IF ergative THEN "Erg" ELSE "Nom"
        args == split1(string, ">")
    IN  IF string = <<>> THEN <<>>
        ELSE IF Len(args) = 1
             THEN <<feature_structure(lower(string), sarg, TRUE)>>
             ELSE <<feature_structure(lower(args[1]), aarg, FALSE),
                    feature_structure(lower(args[2]), parg, FALSE)>>

(***************************************************************************)
(* Subsumption Checker                                                     *)
(***************************************************************************)
\* subsumes with each condition bundle paired with the cell bundle at the
\* same position
RECURSIVE subsumes_positional(_, _)
subsumes_positional(paradigm_cell, morpheme) ==
    IF morpheme = <<>> THEN TRUE
    ELSE IF paradigm_cell = <<>> THEN FALSE
    ELSE IF ~(set(Head(morpheme)) \subseteq set(Head(paradigm_cell))) THEN FALSE
    ELSE subsumes_positional(Tail(paradigm_cell), Tail(morpheme))

\* the inner test with < (proper subset) for <=
RECURSIVE any_superset_strict(_, _)
any_superset_strict(mstruct, paradigm_cell) ==
    IF paradigm_cell = <<>> THEN FALSE
    ELSE IF /\ set(mstruct) \subseteq set(Head(paradigm_cell))
            /\ set(mstruct) # set(Head(paradigm_cell)) THEN TRUE
    ELSE any_superset_strict(mstruct, Tail(paradigm_cell))

\* the inner test: any(set(mstruct) <= set(pstruct) for pstruct in paradigm_cell)
RECURSIVE any_superset(_, _)
any_superset(mstruct, paradigm_cell) ==
    IF paradigm_cell = <<>> THEN FALSE
    ELSE IF set(mstruct) \subseteq set(Head(paradigm_cell)) THEN TRUE
    ELSE any_superset(mstruct, Tail(paradigm_cell))

RECURSIVE subsumes(_, _)
subsumes(paradigm_cell, morpheme) ==
    IF morpheme = <<>> THEN TRUE
    ELSE IF ~any_superset(Head(morpheme), paradigm_cell) THEN FALSE
    ELSE subsumes(paradigm_cell, Tail(morpheme))

(***************************************************************************)
(* Vocabulary Items and Generalisation Rules                               *)
(***************************************************************************)
VI(form, meaning) == [form |-> form, meaning |-> meaning]

GenRule(features, context) ==
    [features |-> features, context |-> context, leftovers |-> <<>>]

\* del_features dropping every bundle that holds a feature to delete
del_features_drop_bundle(self, features) ==
    LET dset == set(features)
    IN  [self EXCEPT !.meaning =
            SelectSeq(self.meaning, LAMBDA fset : set(fset) \cap dset = {})]

\* VI.del_features: the object after the call
del_features(self, features) ==
    LET dset == set(features)
    IN  [self EXCEPT !.meaning =
            [k \in DOMAIN self.meaning |->
                SelectSeq(self.meaning[k], LAMBDA feature : feature \notin dset)]]

\* GenRule.apply leaving the loop after the first morpheme
GenRule_apply_first(self, morpheme_list, h) ==
    IF morpheme_list = <<>> THEN h
    ELSE [h EXCEPT ![Head(morpheme_list)] =
              del_features(h[Head(morpheme_list)], self.features)]

\* GenRule.apply: the heap after del_features has run on every listed object
RECURSIVE GenRule_apply(_, _, _)
GenRule_apply(self, morpheme_list, h) ==
    IF morpheme_list = <<>> THEN h
    ELSE GenRule_apply(self, Tail(morpheme_list),
             [h EXCEPT ![Head(morpheme_list)] =
                  del_features(h[Head(morpheme_list)], self.features)])

(***************************************************************************)
(* Cell Realization Engine                                                 *)
(***************************************************************************)
\* the n lowest references not in use
RECURSIVE fresh(_, _)
fresh(used, n) ==
    IF n = 0 THEN <<>>
    ELSE LET r == CHOOSE x \in 1..(Cardinality(used) + 1) :
                      /\ x \notin used
                      /\ \A y \in 1..(x - 1) : y \in used
         IN  <<r>> \o fresh(used \cup {r}, n - 1)

\* a copy of the list that shares the VI objects (list(...) or copy.copy)
deepcopy_shared(h, list) == [heap |-> h, list |-> list]

\* copy.deepcopy(list): new objects with equal fields, one per distinct
\* object of the list (the memo keeps aliases within the list aliased)
deepcopy(h, list) ==
    LET new      == fresh(DOMAIN h, Len(list))
        first(i) == CHOOSE j \in DOMAIN list :
                        /\ list[j] = list[i]
                        /\ \A k \in 1..(j - 1) : list[k] # list[i]
        copy     == [i \in DOMAIN list |-> new[first(i)]]
        src(r)   == list[CHOOSE i \in DOMAIN list : copy[i] = r]
    IN  [heap |-> [r \in DOMAIN h \cup set(copy) |->
                      IF r \in DOMAIN h THEN h[r] ELSE h[src(r)]],
         list |-> copy]

\* the rule loop leaving after the first rule that fires
RECURSIVE apply_rules_break(_, _, _, _)
apply_rules_break(h, self_rules, c, morpheme_list) ==
    IF self_rules = <<>> THEN h
    ELSE IF subsumes(c, Head(self_rules).context)
         THEN GenRule_apply(Head(self_rules), morpheme_list, h)
         ELSE apply_rules_break(h, Tail(self_rules), c, morpheme_list)

\* step two of realise_cell: for rule in self.rules, gated by the cell
RECURSIVE apply_rules(_, _, _, _)
apply_rules(h, self_rules, c, morpheme_list) ==
    IF self_rules = <<>> THEN h
    ELSE apply_rules(
             IF subsumes(c, Head(self_rules).context)
             THEN GenRule_apply(Head(self_rules), morpheme_list, h)
             ELSE h,
             Tail(self_rules), c, morpheme_list)

\* Language.realise_cell (verbose = False): the heap after the call, the
\* local list `morphemes' and the returned list `insertable'
realise_cell(h, self_morphemes, self_rules, c) ==
    LET copy       == deepcopy(h, self_morphemes)
        h2         == apply_rules(copy.heap, self_rules, c, copy.list)
        insertable == SelectSeq(copy.list,
                                LAMBDA vi : subsumes(c, h2[vi].meaning))
    IN  [heap |-> h2, morphemes |-> copy.list, insertable |-> insertable]

(***************************************************************************)
(* Inputs: vocabulary items and rules of the shipped languages (-ap and    *)
(* the two rules with a context from karuk.py, e- and ku- from ainu.py),   *)
(* plus a VI with no meaning bundle and a rule with an empty context       *)
(***************************************************************************)
VIPool ==
    { VI("-ap", << <<"Acc", "+2", "+pl">> >>),
      VI("e-",  << <<"+2", "-pl">>, <<"+3">> >>),
      VI("ku-", << <<"Nom", "+1", "-pl">>, <<"+3">> >>),
      VI("-0",  << >>) }

RulePool ==
    { GenRule(<<"+pl">>, << <<"Nom", "+3">>, <<"Acc", "+2">> >>),
      GenRule(<<"Acc", "+2">>, << <<"Nom", "+3">> >>),
      GenRule(<<"+3">>, << >>) }

CellStrings ==
    { << >>,
      <<"3", "s", ">", "2", "p">>,
      <<"3", "s", ">", "2", "s">>,
      <<"1", "s", ">", "3", "s">>,
      <<"1", "s">> }

\* the cells the callers build: parse_features(s) for each string, and one
\* cell of an ergative language
Cells ==
    {parse_features(s, FALSE) : s \in CellStrings}
        \cup {parse_features(<<"3", "s", ">", "2", "p">>, TRUE)}

EngineIdle ==
    /\ heap = << >>
    /\ morphemes = << >>
    /\ rules = << >>
    /\ morphemes0 = << >>
    /\ called = FALSE
    /\ cell = << >>
    /\ working = << >>
    /\ result = << >>
    /\ mixed = FALSE

ParserIdle ==
    /\ pstring = << >>
    /\ pergative = FALSE
    /\ presult = << >>
    /\ pexc = "none"
    /\ ppc = "idle"

SubIdle ==
    /\ scell = << >>
    /\ sstruct = << >>
    /\ sres = FALSE
    /\ spc = "idle"

DrawIdle ==
    /\ lang = << >>
    /\ dergative = FALSE
    /\ dcalls = << >>
    /\ dtable = << >>
    /\ dpc = "idle"

(***************************************************************************)
(* The engine: a Language constructed from a profile receives              *)
(* realise_cell calls for any cells in any order                           *)
(***************************************************************************)
\* Language(morphemes, rules): the VI objects are the references 1..n
Init ==
    /\ \E ms \in SeqsUpTo(VIPool, MaxMorphemes), rs \in SeqsUpTo(RulePool, MaxRules) :
          /\ morphemes0 = ms
          /\ rules = rs
          /\ heap = ms
          /\ morphemes = [i \in DOMAIN ms |-> i]
    /\ called = FALSE
    /\ cell = << >>
    /\ working = << >>
    /\ result = << >>
    /\ mixed = FALSE
    /\ ParserIdle /\ SubIdle /\ DrawIdle

\* self.realise_cell(c); the objects of the previous call are no longer
\* referenced and leave the heap
RealiseCell ==
    \E c \in Cells :
        LET live == set(morphemes)
            h0   == [r \in live |-> heap[r]]
            out  == realise_cell(h0, morphemes, rules, c)
        IN  /\ heap' = out.heap
            /\ called' = TRUE
            /\ cell' = c
            /\ working' = out.morphemes
            /\ result' = out.insertable
            /\ mixed' = (mixed \/ (called /\ c # cell))
            /\ UNCHANGED <<morphemes, rules, morphemes0>>
            /\ UNCHANGED <<parserVars, subVars, drawVars>>

Next == RealiseCell

Spec == Init /\ [][Next]_vars

(***************************************************************************)
(* Properties of the engine                                                *)
(***************************************************************************)
\* the VI values behind a list of references
Values(h, refs) == [j \in DOMAIN refs |-> h[refs[j]]]

\* position in the working copy (= in self.morphemes) of the j-th returned VI
Position(j) == CHOOSE i \in DOMAIN working : working[i] = result[j]

\* every condition bundle is a subset of some cell bundle
Holds(c, structure) ==
    \A b \in DOMAIN structure :
        \E a \in DOMAIN c : set(structure[b]) \subseteq set(c[a])

\* the rules whose context the latest cell satisfies, and what they delete
Fired == {k \in DOMAIN rules : Holds(cell, rules[k].context)}
Deleted == UNION {set(rules[k].features) : k \in Fired}
Shrunk(meaning) ==
    [b \in DOMAIN meaning |->
        SelectSeq(meaning[b], LAMBDA feature : feature \notin Deleted)]

\* a first call on a newly constructed Language with the given rule list
FirstCall(rs, c) ==
    realise_cell(morphemes0, [i \in DOMAIN morphemes0 |-> i], rs, c)

\* C1: realise_cell never mutates the stored profile: after any sequence of
\* calls the list self.morphemes holds the same objects in the same order and
\* each has the form and the meaning it was constructed with.
C1_StoredProfileUnchanged ==
    /\ morphemes = [i \in DOMAIN morphemes0 |-> i]
    /\ \A i \in DOMAIN morphemes : heap[morphemes[i]] = morphemes0[i]

\* a call whose rules shrank a meaning in the working copy
C1_Witness ==
    /\ called
    /\ \E i \in DOMAIN working :
          heap[working[i]].meaning # morphemes0[i].meaning

\* C2: realise_cell returns exactly the VIs whose meaning, with the features
\* of every rule whose context the cell satisfies deleted from every bundle,
\* is satisfied by the cell; in the order of self.morphemes, all of them,
\* with the shrunk meanings, and the empty list when there is none.
C2_ExactRealisation ==
    called =>
        /\ \A j \in DOMAIN result : \E i \in DOMAIN working : working[i] = result[j]
        /\ \A j, k \in DOMAIN result : j < k => Position(j) < Position(k)
        /\ {Position(j) : j \in DOMAIN result}
               = {i \in DOMAIN morphemes0 : Holds(cell, Shrunk(morphemes0[i].meaning))}
        /\ \A j \in DOMAIN result :
               heap[result[j]] = VI(morphemes0[Position(j)].form,
                                    Shrunk(morphemes0[Position(j)].meaning))

\* two VIs returned together, the second one only because of a deletion
C2_Witness ==
    /\ called
    /\ Len(result) = 2
    /\ ~Holds(cell, morphemes0[Position(2)].meaning)

\* C6 as stated: some profile with two rules and some cell satisfying both
\* contexts give different results for the rule lists [R1, R2] and [R2, R1].
\* The case is a constructed one, so it is asked for whatever Language is in
\* hand; the rules range over every pairing of a pool rule's features with a
\* pool rule's context.
C6_OrderSensitive ==
    \A now \in {<<morphemes0, rules>>} :
    \E ms \in SeqsUpTo(VIPool, MaxMorphemes), f1 \in RulePool, x1 \in RulePool,
       f2 \in RulePool, x2 \in RulePool, c \in Cells :
        LET r1  == GenRule(f1.features, x1.context)
            r2  == GenRule(f2.features, x2.context)
            ids == [i \in DOMAIN ms |-> i]
            a   == realise_cell(ms, ids, <<r1, r2>>, c)
            b   == realise_cell(ms, ids, <<r2, r1>>, c)
        IN  /\ subsumes(c, r1.context)
            /\ subsumes(c, r2.context)
            /\ \/ Values(a.heap, a.insertable) # Values(b.heap, b.insertable)
               \/ Values(a.heap, a.morphemes) # Values(b.heap, b.morphemes)

\* C6 amended: rule application is order-insensitive: with two rules, the
\* returned VIs and every shrunk meaning are the same for [R1, R2] and [R2, R1].
C6_OrderInsensitive ==
    (called /\ Len(rules) = 2) =>
        LET swapped == FirstCall(<<rules[2], rules[1]>>, cell)
        IN  /\ Values(heap, result) = Values(swapped.heap, swapped.insertable)
            /\ Values(heap, working) = Values(swapped.heap, swapped.morphemes)

\* two different rules both fired and each one shrank some meaning
C6_Witness ==
    /\ called
    /\ Len(rules) = 2
    /\ rules[1] # rules[2]
    /\ Fired = {1, 2}
    /\ \A k \in {1, 2} :
          \E i \in DOMAIN morphemes0 : \E b \in DOMAIN morphemes0[i].meaning :
              set(morphemes0[i].meaning[b]) \cap set(rules[k].features) # {}
    /\ result # << >>

\* C9: realise_cell is repeatable: whatever calls came before, the call for
\* a cell returns the forms and shrunk meanings that the same call returns
\* as the first call on a newly constructed copy of the profile.
C9_Repeatable ==
    called =>
        LET first == FirstCall(rules, cell)
        IN  Values(heap, result) = Values(first.heap, first.insertable)

\* a call that follows a call for another cell, with a rule fired
C9_Witness ==
    /\ mixed
    /\ Fired # {}
    /\ result # << >>

\* C10: rules only broaden: every VI (by position) returned with an empty
\* rule list is returned with the profile's rules, and no meaning changes its
\* number of bundles.
C10_BroadenOnly ==
    called =>
        LET bare == FirstCall(<< >>, cell)
        IN  /\ \A j \in DOMAIN bare.insertable :
                   \E k \in DOMAIN result :
                       \E i \in DOMAIN working :
                           /\ working[i] = result[k]
                           /\ bare.morphemes[i] = bare.insertable[j]
            /\ \A i \in DOMAIN working :
                   Len(heap[working[i]].meaning) = Len(morphemes0[i].meaning)

\* the rules added a VI to the cell's realization
C10_Witness ==
    /\ called
    /\ Len(result) > Len(FirstCall(<< >>, cell).insertable)

(***************************************************************************)
(* The parser: parse_features applied to any string over the alphabet      *)
(***************************************************************************)
Alphabet == {"1", "2", "3", "i", "s", "d", "p", ">", "x", "S"}

InitParse ==
    /\ pstring \in SeqsUpTo(Alphabet, MaxLen)
    /\ pergative \in BOOLEAN
    /\ presult = << >>
    /\ pexc = "none"
    /\ ppc = "ready"
    /\ EngineIdle /\ SubIdle /\ DrawIdle

\* parse_features(pstring, pergative): the function holds no raise statement
\* and every operation in it is defined on every string
Parse ==
    /\ ppc = "ready"
    /\ presult' = parse_features(pstring, pergative)
    /\ pexc' = "none"
    /\ ppc' = "done"
    /\ UNCHANGED <<pstring, pergative>>
    /\ UNCHANGED <<engineVars, subVars, drawVars>>

NextParse == Parse

SpecParse == InitParse /\ [][NextParse]_vars

\* the recognized person/number vocabulary, upper case included
Vocabulary == {"1", "2", "3", "i", "s", "d", "p", "I", "S", "D", "P"}

Count(c, string) == Cardinality({i \in DOMAIN string : string[i] = c})

Malformed(string) ==
    \/ \E i \in DOMAIN string : string[i] \notin Vocabulary \cup {">"}
    \/ Count(">", string) >= 2

Has(token, chars) == \E i \in DOMAIN token : token[i] \in chars

FirstGt(string) ==
    CHOOSE k \in DOMAIN string :
        string[k] = ">" /\ \A j \in 1..(k - 1) : string[j] # ">"

\* the bundle has the case label, +intr iff intransitive, and each of the
\* attributes 1, 2, 3, sg, pl exactly once with the sign the token gives it
BundleOK(bundle, token, case, intr) ==
    LET plus(attr) == CASE attr = "1"  -> Has(token, {"1"})
                        [] attr = "2"  -> Has(token, {"2", "i", "I"})
                        [] attr = "3"  -> Has(token, {"3"})
                        [] attr = "sg" -> Has(token, {"s", "S"})
                        [] attr = "pl" -> Has(token, {"p", "P"})
    IN  /\ Len(bundle) = IF intr THEN 7 ELSE 6
        /\ Cardinality({k \in DOMAIN bundle : bundle[k] = case}) = 1
        /\ ("+intr" \in set(bundle)) <=> intr
        /\ \A attr \in {"1", "2", "3", "sg", "pl"} :
              /\ Cardinality({k \in DOMAIN bundle :
                                 bundle[k] \in {"+" \o attr, "-" \o attr}}) = 1
              /\ ((IF plus(attr) THEN "+" ELSE "-") \o attr) \in set(bundle)

Neutralised(string) ==
    [i \in DOMAIN string |->
        IF string[i] = ">"
        THEN IF i = FirstGt(string) THEN ">" ELSE "d"
        ELSE IF string[i] \in Vocabulary THEN string[i] ELSE "d"]

C8_ParseShape ==
    ppc = "done" =>
        LET sarg == IF pergative THEN "Abs" ELSE "Nom"
            aarg == IF pergative THEN "Erg" ELSE "Nom"
            parg == IF pergative THEN "Abs" ELSE "Acc"
        IN  IF pstring = << >> THEN presult = << >>
            ELSE IF ~Has(pstring, {">"})
            THEN /\ Len(presult) = 1
                 /\ BundleOK(presult[1], pstring, sarg, TRUE)
            ELSE /\ Len(presult) = 2
                 /\ BundleOK(presult[1],
                             SubSeq(pstring, 1, FirstGt(pstring) - 1), aarg, FALSE)
                 /\ BundleOK(presult[2],
                             SubSeq(pstring, FirstGt(pstring) + 1, Len(pstring)),
                             parg, FALSE)

\* an ergative transitive parse whose agent is a first person inclusive dual
C8_Witness ==
    /\ ppc = "done"
    /\ pergative
    /\ pstring = <<"1", "i", ">", "3">>
    /\ presult = << <<"Erg", "+1", "+2", "-3", "-sg", "-pl">>,
                    <<"Abs", "-1", "-2", "+3", "-sg", "-pl">> >>

(***************************************************************************)
(* The subsumption checker applied to any cell and any condition           *)
(***************************************************************************)
\* the bundles of the doctests of subsumes, and the empty bundle
BundlePool ==
    { << >>, <<"+1", "-pl">>, <<"+3">>, <<"+1", "+3">>,
      <<"Nom", "+1", "-pl">>, <<"Acc", "+3", "-pl">> }

Structures == SeqsUpTo(BundlePool, MaxBundles)

InitSub ==
    /\ scell \in Structures \cup Cells
    /\ sstruct \in Structures
    /\ sres = FALSE
    /\ spc = "ready"
    /\ EngineIdle /\ ParserIdle /\ DrawIdle

Subsume ==
    /\ spc = "ready"
    /\ sres' = subsumes(scell, sstruct)
    /\ spc' = "done"
    /\ UNCHANGED <<scell, sstruct>>
    /\ UNCHANGED <<engineVars, parserVars, drawVars>>

NextSub == Subsume

SpecSub == InitSub /\ [][NextSub]_vars

\* C3: subsumes(cell, structure) is true iff every bundle of structure is a
\* subset of at least one bundle of cell (any bundle, not the one at the same
\* position); a structure with no bundle is true for every cell.
C3_SubsumesIff ==
    spc = "done" =>
        /\ sres <=> \A b \in DOMAIN sstruct :
                        \E a \in DOMAIN scell :
                            \A k \in DOMAIN sstruct[b] :
                                \E m \in DOMAIN scell[a] :
                                    scell[a][m] = sstruct[b][k]
        /\ sstruct = << >> => sres

\* a two-bundle condition matched crosswise: its first bundle only by the
\* cell's second bundle, its second only by the cell's first
C3_Witness ==
    /\ spc = "done"
    /\ sres
    /\ Len(sstruct) = 2 /\ Len(scell) = 2
    /\ set(sstruct[1]) \subseteq set(scell[2])
    /\ ~(set(sstruct[1]) \subseteq set(scell[1]))
    /\ set(sstruct[2]) \subseteq set(scell[1])
    /\ ~(set(sstruct[2]) \subseteq set(scell[2]))

\* C7 as stated: subsumes(cell, [[]]) is true for every cell that
\* parse_features can return.
C7_EmptyBundleEveryCell ==
    (spc = "done" /\ sstruct = << << >> >> /\ scell \in Cells) => sres

\* C7 amended: subsumes(cell, [[]]) is true for every cell with at least one
\* bundle, so for every value parse_features returns for a non-empty string;
\* for the empty cell, which parse_features returns for "", it is false.
C7_EmptyBundleNonEmptyCell ==
    (spc = "done" /\ sstruct = << << >> >>) => (sres <=> scell # << >>)

\* the empty condition bundle checked against a parsed transitive cell
C7_Witness ==
    /\ spc = "done"
    /\ sstruct = << << >> >>
    /\ scell = parse_features(<<"3", "s", ">", "2", "p">>, FALSE)
    /\ sres

(***************************************************************************)
(* The paradigm builder                                                    *)
(***************************************************************************)
\* ''.join(strings)
RECURSIVE Join(_)
Join(strings) ==
    IF strings = << >> THEN "" ELSE Head(strings) \o Join(Tail(strings))

\* del list[1]
DelSecond(list) == <<Head(list)>> \o SubSeq(list, 3, Len(list))

\* lines 255-262: the subject tokens, person-major
Subjects(self) ==
    LET persons0 == << <<"1">>, <<"1", "i">>, <<"2">>, <<"3">> >>
        persons  == IF ~self.inclusive THEN DelSecond(persons0) ELSE persons0
        numbers0 == << <<"s">>, <<"d">>, <<"p">> >>
        numbers  == IF ~self.dual THEN DelSecond(numbers0) ELSE numbers0
        pairs    == [k \in 1..(Len(persons) * Len(numbers)) |->
                        [pers |-> persons[((k - 1) \div Len(numbers)) + 1],
                         num  |-> numbers[((k - 1) % Len(numbers)) + 1]]]
        kept     == SelectSeq(pairs,
                        LAMBDA q : ~(q.pers = <<"1", "i">> /\ q.num = <<"s">>))
    IN  [k \in DOMAIN kept |-> kept[k].pers \o kept[k].num]

\* lines 269-272: the disjoint-reference test on two tokens
Coreferent(subj, obj) ==
    \/ In("1", subj) /\ In("1", obj)
    \/ In("2", subj) /\ In("2", obj)
    \/ In("2", subj) /\ In("i", obj)
    \/ In("i", subj) /\ In("2", obj)

\* lines 263-278: the table of cell strings, '' for a coreferent pair
PnTable(self) ==
    LET subjects == Subjects(self)
    IN  IF self.transitive
        THEN [i \in DOMAIN subjects |->
                 <<subjects[i]>> \o
                 [j \in DOMAIN subjects |->
                     IF Coreferent(subjects[i], subjects[j])
                     THEN << >>
                     ELSE subjects[i] \o <<">">> \o subjects[j]]]
        ELSE [i \in DOMAIN subjects |-> <<subjects[i]>>]

\* v itself; written so that TLC computes v once, at this point, and keeps
\* the computed value (a bound variable holds a value, a definition or an
\* argument holds an expression that is evaluated again at each use)
Strict(v) == CHOOSE x \in {v} : x = x

\* line 279 for one cell string: the string is parsed and realised; the
\* entry keeps the cell handed to realise_cell, the forms of the VIs returned
\* and the stored objects after the call.  The copies made for a cell are
\* only read for their forms afterwards.
Entry(h, self, ergative, string) ==
    CHOOSE entry \in
        { [cell  |-> c,
           forms |-> [j \in DOMAIN out.insertable |->
                         out.heap[out.insertable[j]].form],
           heap  |-> Strict([r \in set(self.morphemes) |-> out.heap[r]])] :
          c \in {parse_features(string, ergative)},
          out \in {realise_cell(h, self.morphemes, self.rules,
                                parse_features(string, ergative))} } : TRUE

\* lines 279-280 for one row of cell strings, left to right
RECURSIVE RealiseRow(_, _, _, _)
RealiseRow(h, self, ergative, row) ==
    IF row = << >> THEN << >>
    ELSE CHOOSE entries \in
             { <<e>> \o RealiseRow(e.heap, self, ergative, Tail(row)) :
               e \in {Entry(h, self, ergative, Head(row))} } : TRUE

\* lines 279-280 over the rows, first to last
RECURSIVE RealiseRows(_, _, _, _)
RealiseRows(h, self, ergative, rows) ==
    IF rows = << >> THEN << >>
    ELSE CHOOSE done \in
             { <<first>> \o
               RealiseRows(first[Len(first)].heap, self, ergative, Tail(rows)) :
               first \in {RealiseRow(h, self, ergative, Head(rows))} } : TRUE

\* lines 281-286: the array handed to make_table
Table(self, subjects, paradigm) ==
    LET head == <<"", "intr">> \o
                (IF self.transitive
                 THEN [j \in DOMAIN subjects |-> Join(subjects[j])]
                 ELSE << >>)
    IN  <<head>> \o
        [i \in DOMAIN paradigm |->
            <<Join(subjects[i])>> \o
            [j \in DOMAIN paradigm[i] |-> Join(paradigm[i][j].forms)]]

\* Language.draw_paradigm up to the call of make_table: the stored objects
\* at the end, the cells handed to realise_cell, and the array
draw_paradigm(self, ergative) ==
    CHOOSE drawn \in
        { [heap  |-> paradigm[Len(paradigm)][Len(paradigm[Len(paradigm)])].heap,
           calls |-> [i \in DOMAIN paradigm |->
                         [j \in DOMAIN paradigm[i] |-> paradigm[i][j].cell]],
           table |-> Table(self, subjects, paradigm)] :
          subjects \in {Subjects(self)},
          paradigm \in {RealiseRows(self.heap, self, ergative, PnTable(self))} } : TRUE

InitDraw ==
    /\ \E ms \in SeqsUpTo(VIPool, MaxMorphemes), rs \in SeqsUpTo(RulePool, MaxRules),
          du \in BOOLEAN, incl \in BOOLEAN, tr \in BOOLEAN :
          lang = [heap |-> ms, morphemes |-> [i \in DOMAIN ms |-> i], rules |-> rs,
                  dual |-> du, inclusive |-> incl, transitive |-> tr]
    /\ dergative \in BOOLEAN
    /\ dcalls = << >>
    /\ dtable = << >>
    /\ dpc = "ready"
    /\ EngineIdle /\ ParserIdle /\ SubIdle

DrawParadigm ==
    /\ dpc = "ready"
    /\ \E out \in {draw_paradigm(lang, dergative)} :
           /\ lang' = [lang EXCEPT !.heap = out.heap]
           /\ dcalls' = out.calls
           /\ dtable' = out.table
    /\ dpc' = "done"
    /\ UNCHANGED dergative
    /\ UNCHANGED <<engineVars, parserVars, subVars>>

NextDraw == DrawParadigm

SpecDraw == InitDraw /\ [][NextDraw]_vars

\* C5: in a transitive paradigm no coreferent subject/object combination is
\* handed to realise_cell, and its table cell is blank, whatever the profile.
C5_ExcludedBlank ==
    (dpc = "done" /\ lang.transitive) =>
        LET subjects == Subjects(lang)
        IN  \A i, j \in DOMAIN subjects :
                Coreferent(subjects[i], subjects[j]) =>
                    /\ \A a \in DOMAIN dcalls : \A b \in DOMAIN dcalls[a] :
                           dcalls[a][b] #
                               parse_features(subjects[i] \o <<">">> \o subjects[j],
                                              dergative)
                    /\ dtable[i + 1][j + 2] = ""

====
